---- MODULE Spec2Model ----
(***************************************************************************)
(* Model of the playground gateway (ui/src/main.rs):                       *)
(*   - the sandbox metadata cache, SandboxCacheOne::clone_or_populate,     *)
(*     run by concurrent request handlers over the four slots of           *)
(*     SandboxCache, with a clock, the slot mutexes and mutex poisoning;   *)
(*   - the conversion of wire requests to sandbox requests (TryFrom) and   *)
(*     the field parsers it is made of.                                    *)
(***************************************************************************)
EXTENDS Integers, FiniteSets, Sequences, TLC

(***************************************************************************)
(* Bounds of the model.                                                    *)
(***************************************************************************)
MaxRequests == 3
MaxTime == 3602
MaxDate == 3

(***************************************************************************)
(* Program constants.                                                      *)
(***************************************************************************)
ONE_HOUR_IN_SECONDS == 60 * 60
SANDBOX_CACHE_TIME_TO_LIVE_IN_SECONDS == ONE_HOUR_IN_SECONDS

VARIABLES
    now,        \* the monotonic clock (Instant), in seconds
    cache,      \* slot -> Option<SandboxCacheInfo<T>>, the mutex's content
    holder,     \* slot -> the request holding the slot's mutex, or NoThread
    poisoned,   \* slot -> the mutex's poison flag
    pc,         \* request -> its handler's position in clone_or_populate
    slot,       \* request -> the slot it calls
    call,       \* request -> what its call saw and returned
    okCount,    \* slot -> populator invocations that returned Ok
    errCount,   \* slot -> populator invocations that returned Err or panicked
    lastOutcome,\* slot -> how the last call that held the guard ended
    wire,       \* the wire request under conversion
    converted,  \* the result of its conversion
    binding,    \* the server binding whose handler serves the request in hand
    io,         \* what the handler's collaborators answer for that request
    ops,        \* the sandbox operations the handler has invoked, in order
    handlerResult, \* the handler's Result<Resp>
    httpResponse,  \* the HTTP response built for the request in hand
    asset       \* the asset request in hand and what the file system answers

vars == <<now, cache, holder, poisoned, pc, slot, call, okCount, errCount,
          lastOutcome, wire, converted, binding, io, ops, handlerResult,
          httpResponse, asset>>

\* The state of the request handlers and of the asset resolver, which the cache
\* and the conversions leave alone.
httpVars == <<binding, io, ops, handlerResult, httpResponse, asset>>

(***************************************************************************)
(* The cache: SandboxCache, SandboxCacheOne, CachedSandbox.                *)
(***************************************************************************)
\* Each request is served by a handler of its own (a thread, or a task); the
\* requests are numbered in the order they arrive.
Threads == 1..MaxRequests
NoThread == 0

\* The fields of SandboxCache.
SlotOrder == <<"crates", "version_stable", "version_beta", "version_nightly">>

Slots == {SlotOrder[i] : i \in 1..Len(SlotOrder)}

NextSlot(s) ==
    LET i == CHOOSE j \in 1..Len(SlotOrder) : SlotOrder[j] = s
    IN  SlotOrder[(i % Len(SlotOrder)) + 1]

\* What the sandbox may answer to a metadata query.
Data == {"d1", "d2"}

\* The clock advances by half a TTL, or by one second more than that.
TickSteps == {SANDBOX_CACHE_TIME_TO_LIVE_IN_SECONDS,
              SANDBOX_CACHE_TIME_TO_LIVE_IN_SECONDS + 1}

NoQuery == [op |-> "none", channel |-> "none"]
NoValue == [query |-> NoQuery, data |-> "none"]

\* Option<SandboxCacheInfo<T>>: None, and Some(SandboxCacheInfo {value, time}).
None == [some |-> FALSE, value |-> NoValue, time |-> 0]

SandboxCacheInfo(value, time) == [some |-> TRUE, value |-> value, time |-> time]

\* Populator with version_beta's closure asking for the Stable channel.
WrongPopulator(s) ==
    CASE s = "crates" -> [op |-> "crates", channel |-> "none"]
      [] s = "version_stable" -> [op |-> "version", channel |-> "Stable"]
      [] s = "version_beta" -> [op |-> "version", channel |-> "Stable"]
      [] s = "version_nightly" -> [op |-> "version", channel |-> "Nightly"]

\* The sandbox operation the populator closure of each CachedSandbox method runs.
Populator(s) ==
    CASE s = "crates" -> [op |-> "crates", channel |-> "none"]
      [] s = "version_stable" -> [op |-> "version", channel |-> "Stable"]
      [] s = "version_beta" -> [op |-> "version", channel |-> "Beta"]
      [] s = "version_nightly" -> [op |-> "version", channel |-> "Nightly"]

\* cached.time.elapsed()
Elapsed(time) == now - time

\* IsStale with `>=` for `>`.
IsStaleOffByOne(cached) == Elapsed(cached.time) >= SANDBOX_CACHE_TIME_TO_LIVE_IN_SECONDS

\* IsStale of a cache without expiry.
IsStaleNever(cached) == FALSE

\* IsStale granting an entry one second more than the TTL.
IsStaleLenient(cached) ==
    Elapsed(cached.time) > SANDBOX_CACHE_TIME_TO_LIVE_IN_SECONDS + 1

\* cached.time.elapsed() > Duration::from_secs(TTL)
IsStale(cached) == Elapsed(cached.time) > SANDBOX_CACHE_TIME_TO_LIVE_IN_SECONDS

\* LockAvailable of a lock that excludes nobody.
LockAvailableAlways(s) == TRUE

\* LockAvailable of a lock that lets a request in whenever an entry is stored.
LockAvailableForReaders(s) == holder[s] = NoThread \/ cache[s].some

\* Mutex::lock blocks until no other handler holds the guard.
LockAvailable(s) == holder[s] = NoThread

\* LockResult of a lock that recovers from poisoning.
LockResultIgnoringPoison(s) == "Ok"

\* Mutex::lock returns Err(PoisonError) on a poisoned mutex.
LockResult(s) == IF poisoned[s] THEN "Err" ELSE "Ok"

\* GuardDuringPopulate with the guard dropped before the populator runs.
GuardDroppedBeforePopulate(t) == NoThread

\* `cache`, the MutexGuard, lives until clone_or_populate returns.
GuardDuringPopulate(t) == t

\* The guard outlives the call that took it.
GuardLeaked(t) == t

\* The MutexGuard `cache` is a local of clone_or_populate: it is dropped, and the
\* mutex unlocked, when the function returns, on whichever path.
GuardDropped(t) == NoThread

\* CacheAfterFailure of a populate that evicts the entry when it fails.
CacheAfterFailureEvicts(old) == None

\* populate returns at `?` before the assignment to *cache.
CacheAfterFailure(old) == old

\* A call record: how the call started (emptyAtCall, hungAtCall,
\* poisonedAtCall), what it did (invoked, age: the entry's age at the match) and
\* what it returned (kind, value).
NoCall ==
    [kind |-> "none", value |-> NoValue, invoked |-> FALSE, age |-> 0,
     emptyAtCall |-> FALSE, hungAtCall |-> {},
     poisonedAtCall |-> {}]

(***************************************************************************)
(* Request validation: the field parsers and TryFrom<CompileRequest>.      *)
(***************************************************************************)
\* Result<T>: Ok(v) and Err(Error::kind(value)).
Ok(v) == [ok |-> TRUE, val |-> v]

Err(kind, value) == [ok |-> FALSE, val |-> [error |-> kind, value |-> value]]

\* Option<T> of a wire field or of a parsed field.
Some(v) == [some |-> TRUE, v |-> v]

Absent == [some |-> FALSE, v |-> "none"]

\* sandbox::CompileTarget
Assembly(flavor, demangle, process) ==
    [tag |-> "Assembly", flavor |-> flavor, demangle |-> demangle,
     process |-> process]

Plain(tag) ==
    [tag |-> tag, flavor |-> "none", demangle |-> "none", process |-> "none"]

parse_target(s) ==
    CASE s = "asm" -> Ok(Assembly("Att", "Demangle", "Filter"))
      [] s = "llvm-ir" -> Ok(Plain("LlvmIr"))
      [] s = "mir" -> Ok(Plain("Mir"))
      [] s = "wasm" -> Ok(Plain("Wasm"))
      [] OTHER -> Err("InvalidTarget", s)

parse_assembly_flavor(s) ==
    CASE s = "att" -> Ok("Att")
      [] s = "intel" -> Ok("Intel")
      [] OTHER -> Err("InvalidAssemblyFlavor", s)

parse_demangle_assembly(s) ==
    CASE s = "demangle" -> Ok("Demangle")
      [] s = "mangle" -> Ok("Mangle")
      [] OTHER -> Err("InvalidDemangleAssembly", s)

parse_process_assembly(s) ==
    CASE s = "filter" -> Ok("Filter")
      [] s = "raw" -> Ok("Raw")
      [] OTHER -> Err("InvalidProcessAssembly", s)

\* parse_channel matching the channel's name whatever its letter case.
parse_channel_ignoring_case(s) ==
    CASE s \in {"stable", "Stable", "STABLE"} -> Ok("Stable")
      [] s \in {"beta", "Beta", "BETA"} -> Ok("Beta")
      [] s \in {"nightly", "Nightly", "NIGHTLY"} -> Ok("Nightly")
      [] OTHER -> Err("InvalidChannel", s)

parse_channel(s) ==
    CASE s = "stable" -> Ok("Stable")
      [] s = "beta" -> Ok("Beta")
      [] s = "nightly" -> Ok("Nightly")
      [] OTHER -> Err("InvalidChannel", s)

parse_mode(s) ==
    CASE s = "debug" -> Ok("Debug")
      [] s = "release" -> Ok("Release")
      [] OTHER -> Err("InvalidMode", s)

\* parse_edition taking an unknown edition for the default one.
parse_edition_defaulting(s) ==
    CASE s = "2015" -> Ok(Some("Rust2015"))
      [] s = "2018" -> Ok(Some("Rust2018"))
      [] OTHER -> Ok(Absent)

parse_edition(s) ==
    CASE s = "" -> Ok(Absent)
      [] s = "2015" -> Ok(Some("Rust2015"))
      [] s = "2018" -> Ok(Some("Rust2018"))
      [] OTHER -> Err("InvalidEdition", s)

parse_crate_type(s) ==
    CASE s = "bin" -> Ok("Binary")
      [] s = "lib" -> Ok("Library(Lib)")
      [] s = "dylib" -> Ok("Library(Dylib)")
      [] s = "rlib" -> Ok("Library(Rlib)")
      [] s = "staticlib" -> Ok("Library(Staticlib)")
      [] s = "cdylib" -> Ok("Library(Cdylib)")
      [] s = "proc-macro" -> Ok("Library(ProcMacro)")
      [] OTHER -> Err("InvalidCrateType", s)

\* match me.field { Some(f) => Some(parse(&f)?), None => None }
\* (parsed is the parser's result on the field's string, used when present)
ParseOptional(field, parsed) ==
    IF field.some
    THEN IF parsed.ok THEN Ok(Some(parsed.val)) ELSE parsed
    ELSE Ok(Absent)

\* MergeTarget overriding each assembly parameter on its own.
MergeFieldByField(target, assembly_flavor, demangle, process_assembly) ==
    IF target.tag = "Assembly"
    THEN Assembly(IF assembly_flavor.some THEN assembly_flavor.v ELSE target.flavor,
                  IF demangle.some THEN demangle.v ELSE target.demangle,
                  IF process_assembly.some THEN process_assembly.v ELSE target.process)
    ELSE target

\* MergeTarget ignoring the assembly fields.
MergeNever(target, assembly_flavor, demangle, process_assembly) == target

\* MergeTarget overriding whatever the target is.
MergeIgnoringTarget(target, assembly_flavor, demangle, process_assembly) ==
    IF /\ assembly_flavor.some
       /\ demangle.some
       /\ process_assembly.some
    THEN Assembly(assembly_flavor.v, demangle.v, process_assembly.v)
    ELSE target

\* match (target, assembly_flavor, demangle, process_assembly) {
\*     (Assembly(_, _, _), Some(flavor), Some(demangle), Some(process)) =>
\*         Assembly(flavor, demangle, process),
\*     _ => target }
MergeTarget(target, assembly_flavor, demangle, process_assembly) ==
    IF /\ target.tag = "Assembly"
       /\ assembly_flavor.some
       /\ demangle.some
       /\ process_assembly.some
    THEN Assembly(assembly_flavor.v, demangle.v, process_assembly.v)
    ELSE target

\* TryFrom<CompileRequest> for sandbox::CompileRequest: each `?` returns the
\* first error, in the order the fields are parsed.
TryFromCompileRequest(me) ==
    LET target == parse_target(me.target)
        assembly_flavor == ParseOptional(me.assembly_flavor, parse_assembly_flavor(me.assembly_flavor.v))
        demangle == ParseOptional(me.demangle_assembly, parse_demangle_assembly(me.demangle_assembly.v))
        process_assembly == ParseOptional(me.process_assembly, parse_process_assembly(me.process_assembly.v))
        channel == parse_channel(me.channel)
        mode == parse_mode(me.mode)
        edition == parse_edition(me.edition)
        crate_type == parse_crate_type(me.crate_type)
    IN  CASE ~target.ok -> target
          [] ~assembly_flavor.ok -> assembly_flavor
          [] ~demangle.ok -> demangle
          [] ~process_assembly.ok -> process_assembly
          [] ~channel.ok -> channel
          [] ~mode.ok -> mode
          [] ~edition.ok -> edition
          [] ~crate_type.ok -> crate_type
          [] OTHER ->
               Ok([target |-> MergeTarget(target.val, assembly_flavor.val,
                                          demangle.val, process_assembly.val),
                   channel |-> channel.val,
                   mode |-> mode.val,
                   edition |-> edition.val,
                   crate_type |-> crate_type.val,
                   tests |-> me.tests,
                   backtrace |-> me.backtrace,
                   code |-> me.code])

\* TryFrom<ExecuteRequest> with the crate type parsed before the other fields.
TryFromExecuteRequestCrateTypeFirst(me) ==
    LET channel == parse_channel(me.channel)
        mode == parse_mode(me.mode)
        edition == parse_edition(me.edition)
        crate_type == parse_crate_type(me.crate_type)
    IN  CASE ~crate_type.ok -> crate_type
          [] ~channel.ok -> channel
          [] ~mode.ok -> mode
          [] ~edition.ok -> edition
          [] OTHER ->
               Ok([channel |-> channel.val,
                   mode |-> mode.val,
                   edition |-> edition.val,
                   crate_type |-> crate_type.val,
                   tests |-> me.tests,
                   backtrace |-> me.backtrace,
                   code |-> me.code])

\* TryFrom<ExecuteRequest> for sandbox::ExecuteRequest: the fields of the
\* struct expression are evaluated in the order written, and each try!/`?`
\* returns the first error.
TryFromExecuteRequest(me) ==
    LET channel == parse_channel(me.channel)
        mode == parse_mode(me.mode)
        edition == parse_edition(me.edition)
        crate_type == parse_crate_type(me.crate_type)
    IN  CASE ~channel.ok -> channel
          [] ~mode.ok -> mode
          [] ~edition.ok -> edition
          [] ~crate_type.ok -> crate_type
          [] OTHER ->
               Ok([channel |-> channel.val,
                   mode |-> mode.val,
                   edition |-> edition.val,
                   crate_type |-> crate_type.val,
                   tests |-> me.tests,
                   backtrace |-> me.backtrace,
                   code |-> me.code])

\* TryFrom<EvaluateRequest> reading optimize as a number.
TryFromEvaluateRequestNumeric(me) ==
    LET channel == parse_channel(me.version)
    IN  IF ~channel.ok
        THEN channel
        ELSE Ok([channel |-> channel.val,
                 mode |-> IF me.optimize \in {"0", "00", ""}
                          THEN "Debug" ELSE "Release",
                 edition |-> Absent,
                 crate_type |-> "Binary",
                 tests |-> FALSE,
                 backtrace |-> FALSE,
                 code |-> me.code])

\* TryFrom<EvaluateRequest> for sandbox::ExecuteRequest.
TryFromEvaluateRequest(me) ==
    LET channel == parse_channel(me.version)
    IN  IF ~channel.ok
        THEN channel
        ELSE Ok([channel |-> channel.val,
                 mode |-> IF me.optimize # "0" THEN "Release" ELSE "Debug",
                 edition |-> Absent,
                 crate_type |-> "Binary",
                 tests |-> FALSE,
                 backtrace |-> FALSE,
                 code |-> me.code])

\* The wire values the model draws each field of a request from: the accepted
\* literals and some that are not.
Targets == {"asm", "llvm-ir", "mir", "wasm", "Asm"}
AssemblyFlavors == {Absent, Some("att"), Some("intel"), Some("Intel")}
DemangleAssemblies == {Absent, Some("demangle"), Some("mangle"), Some("")}
ProcessAssemblies == {Absent, Some("filter"), Some("raw"), Some("FILTER")}
Channels == {"stable", "beta", "nightly", "Stable"}
Modes == {"debug", "release", "Debug"}
Editions == {"", "2015", "2018", "2021"}
CrateTypes == {"bin", "lib", "dylib", "rlib", "staticlib", "cdylib",
               "proc-macro", "exe"}
Flags == {<<TRUE, FALSE>>, <<FALSE, TRUE>>}
Codes == {"fn main(){}"}

\* CompileRequest, as deserialized from the wire.
CompileRequest(ta, af, da, pa, ch, mo, ed, ct, fl, co) ==
    [kind |-> "compile", target |-> ta, assembly_flavor |-> af,
     demangle_assembly |-> da, process_assembly |-> pa, channel |-> ch,
     mode |-> mo, edition |-> ed, crate_type |-> ct, tests |-> fl[1],
     backtrace |-> fl[2], code |-> co]

\* ExecuteRequest, as deserialized from the wire.
ExecuteRequest(ch, mo, ed, ct, fl, co) ==
    [kind |-> "execute", channel |-> ch, mode |-> mo, edition |-> ed,
     crate_type |-> ct, tests |-> fl[1], backtrace |-> fl[2], code |-> co]

\* The wire values of the legacy request's optimize and code fields.
Optimizes == {"0", "1", "2", "", "00", "false"}
LegacyCodes == {"fn main(){}", "fn main(){println!(\"hi\")}"}

\* EvaluateRequest, as deserialized from the wire.
EvaluateRequest(ve, op, co) ==
    [kind |-> "evaluate", version |-> ve, optimize |-> op, code |-> co]

NoWire == [kind |-> "none"]

NoResult == [ok |-> FALSE, val |-> [error |-> "none", value |-> ""]]

\* No request in a handler's hands: nothing asked of its collaborators, no
\* response built, no asset asked for.
NoIo == [kind |-> "none"]

NoResponse == [status |-> 0]

NoAsset == [kind |-> "none"]

Init ==
    /\ now = 0
    /\ cache = [s \in Slots |-> None]
    /\ holder = [s \in Slots |-> NoThread]
    /\ poisoned = [s \in Slots |-> FALSE]
    /\ pc = [t \in Threads |-> "new"]
    /\ slot = [t \in Threads |-> "crates"]
    /\ call = [t \in Threads |-> NoCall]
    /\ okCount = [s \in Slots |-> 0]
    /\ errCount = [s \in Slots |-> 0]
    /\ lastOutcome = [s \in Slots |-> "none"]
    /\ wire = NoWire
    /\ converted = NoResult
    /\ binding = "none"
    /\ io = NoIo
    /\ ops = <<>>
    /\ handlerResult = NoResult
    /\ httpResponse = NoResponse
    /\ asset = NoAsset

\* The clock advances.
Tick ==
    /\ \E d \in TickSteps :
          /\ now + d <= MaxTime
          /\ now' = now + d
    /\ UNCHANGED <<cache, holder, poisoned, pc, slot, call, okCount, errCount,
                   lastOutcome, wire, converted, httpVars>>

\* The slots that requests have called so far.
InUse == {slot[t] : t \in {u \in Threads : pc[u] # "new"}}

\* The four slots run the same code, SandboxCacheOne<T>, and no call on one
\* touches another, so a behaviour and its image under a renaming of the slots
\* are alike. Of each such class the model explores the behaviours in which the
\* slots come into use in the cyclic order of SlotOrder, starting at any slot.
FirstUseInOrder(s) ==
    \/ InUse = {}
    \/ s \in InUse
    \/ \E r \in InUse : NextSlot(r) = s

\* Request t is at self.0.lock() on slot s: it has just arrived and called one
\* of CachedSandbox's methods, or it was blocked there.
AtLock(t, s) ==
    \/ /\ pc[t] = "new"
       /\ \A u \in Threads : u < t => pc[u] # "new"
       /\ FirstUseInOrder(s)
    \/ /\ pc[t] = "lock"
       /\ slot[t] = s

\* Its call record.
CallOf(t, s) ==
    IF pc[t] = "new"
    THEN [NoCall EXCEPT !.emptyAtCall = ~cache[s].some,
                        !.hungAtCall = {u \in Threads : pc[u] = "hung"},
                        !.poisonedAtCall = {r \in Slots : poisoned[r]}]
    ELSE call[t]

\* What the match on cache.clone() sees.
Checked(t, s, invoked) ==
    [CallOf(t, s) EXCEPT !.age = IF cache[s].some
                                 THEN Elapsed(cache[s].time) ELSE 0,
                         !.invoked = invoked]

\* Request t arrives and calls clone_or_populate on slot s; self.0.lock() blocks,
\* another request holding the guard.
Call(t, s) ==
    /\ pc[t] = "new"
    /\ AtLock(t, s)
    /\ ~LockAvailable(s)
    /\ pc' = [pc EXCEPT ![t] = "lock"]
    /\ slot' = [slot EXCEPT ![t] = s]
    /\ call' = [call EXCEPT ![t] = CallOf(t, s)]
    /\ UNCHANGED <<now, cache, holder, poisoned, okCount, errCount,
                   lastOutcome, wire, converted, httpVars>>

\* self.0.lock() fails on a poisoned mutex: map_err drops the guard inside the
\* PoisonError and `?` returns Err(Error::CachePoisoned).
LockPoisoned(t, s) ==
    /\ AtLock(t, s)
    /\ LockAvailable(s)
    /\ LockResult(s) = "Err"
    /\ pc' = [pc EXCEPT ![t] = "done"]
    /\ slot' = [slot EXCEPT ![t] = s]
    /\ call' = [call EXCEPT ![t] = [CallOf(t, s) EXCEPT !.kind = "CachePoisoned"]]
    /\ UNCHANGED <<now, cache, holder, poisoned, okCount, errCount,
                   lastOutcome, wire, converted, httpVars>>

\* self.0.lock() succeeds and the match finds Some(cached), not older than the
\* TTL: Ok(cached.value); the guard is dropped on return.
ReturnCached(t, s) ==
    /\ AtLock(t, s)
    /\ LockAvailable(s)
    /\ LockResult(s) = "Ok"
    /\ cache[s].some
    /\ ~IsStale(cache[s])
    /\ holder' = [holder EXCEPT ![s] = GuardDropped(t)]
    /\ lastOutcome' = [lastOutcome EXCEPT ![s] = "Ok"]
    /\ pc' = [pc EXCEPT ![t] = "done"]
    /\ slot' = [slot EXCEPT ![t] = s]
    /\ call' = [call EXCEPT ![t] =
                  [Checked(t, s, FALSE) EXCEPT !.kind = "Ok",
                                               !.value = cache[s].value]]
    /\ UNCHANGED <<now, cache, poisoned, okCount, errCount, wire, converted, httpVars>>

\* self.0.lock() succeeds and the match finds None, or Some(cached) older than
\* the TTL: populate calls populator(), the guard still held.
StartPopulate(t, s) ==
    /\ AtLock(t, s)
    /\ LockAvailable(s)
    /\ LockResult(s) = "Ok"
    /\ ~cache[s].some \/ IsStale(cache[s])
    /\ holder' = [holder EXCEPT ![s] = GuardDuringPopulate(t)]
    /\ pc' = [pc EXCEPT ![t] = "populating"]
    /\ slot' = [slot EXCEPT ![t] = s]
    /\ call' = [call EXCEPT ![t] = Checked(t, s, TRUE)]
    /\ UNCHANGED <<now, cache, poisoned, okCount, errCount, lastOutcome, wire,
                   converted, httpVars>>

\* populator() returns Ok(value): the entry is replaced, stamped Instant::now(),
\* and Ok(value) is returned; the guard is dropped.
PopulatorOk(t, d) ==
    /\ pc[t] = "populating"
    /\ LET value == [query |-> Populator(slot[t]), data |-> d]
       IN  /\ cache' = [cache EXCEPT ![slot[t]] = SandboxCacheInfo(value, now)]
           /\ okCount' = [okCount EXCEPT ![slot[t]] = @ + 1]
           /\ UNCHANGED errCount
           /\ call' = [call EXCEPT ![t].kind = "Ok", ![t].value = value]
    /\ holder' = [holder EXCEPT ![slot[t]] = GuardDropped(t)]
    /\ lastOutcome' = [lastOutcome EXCEPT ![slot[t]] = "Ok"]
    /\ pc' = [pc EXCEPT ![t] = "done"]
    /\ UNCHANGED <<now, poisoned, slot, wire, converted, httpVars>>

\* populator() returns Err: map_err(Error::Sandbox) and `?` return it before
\* the assignment; the guard is dropped.
PopulatorErr(t) ==
    /\ pc[t] = "populating"
    /\ cache' = [cache EXCEPT ![slot[t]] = CacheAfterFailure(@)]
    /\ errCount' = [errCount EXCEPT ![slot[t]] = @ + 1]
    /\ UNCHANGED okCount
    /\ call' = [call EXCEPT ![t].kind = "Sandbox"]
    /\ holder' = [holder EXCEPT ![slot[t]] = GuardDropped(t)]
    /\ lastOutcome' = [lastOutcome EXCEPT ![slot[t]] = "Sandbox"]
    /\ pc' = [pc EXCEPT ![t] = "done"]
    /\ UNCHANGED <<now, poisoned, slot, wire, converted, httpVars>>

\* populator() panics: the guard is dropped while unwinding, which poisons the
\* mutex; the call returns nothing to its caller.
PopulatorPanic(t) ==
    /\ pc[t] = "populating"
    /\ poisoned' = [poisoned EXCEPT ![slot[t]] = TRUE]
    /\ errCount' = [errCount EXCEPT ![slot[t]] = @ + 1]
    /\ UNCHANGED <<cache, okCount>>
    /\ call' = [call EXCEPT ![t].kind = "Panic"]
    /\ holder' = [holder EXCEPT ![slot[t]] = GuardDropped(t)]
    /\ lastOutcome' = [lastOutcome EXCEPT ![slot[t]] = "Panic"]
    /\ pc' = [pc EXCEPT ![t] = "done"]
    /\ UNCHANGED <<now, slot, wire, converted, httpVars>>

\* populator() never returns: the handler stays inside it, holding the guard.
PopulatorHang(t) ==
    /\ pc[t] = "populating"
    /\ pc' = [pc EXCEPT ![t] = "hung"]
    /\ UNCHANGED <<now, cache, holder, poisoned, slot, call, okCount, errCount,
                   lastOutcome, wire, converted, httpVars>>

Next ==
    \/ Tick
    \/ \E t \in Threads, s \in Slots : Call(t, s)
    \/ \E t \in Threads, s \in Slots : LockPoisoned(t, s)
    \/ \E t \in Threads, s \in Slots : ReturnCached(t, s)
    \/ \E t \in Threads, s \in Slots : StartPopulate(t, s)
    \/ \E t \in Threads, d \in Data : PopulatorOk(t, d)
    \/ \E t \in Threads : PopulatorErr(t)
    \/ \E t \in Threads : PopulatorPanic(t)
    \/ \E t \in Threads : PopulatorHang(t)

Spec == Init /\ [][Next]_vars

\* The cache when every populator invocation returns, with Ok or Err: no
\* invocation hangs or panics, so no mutex is ever poisoned.
LiveNext ==
    \/ Tick
    \/ \E t \in Threads, s \in Slots : Call(t, s)
    \/ \E t \in Threads, s \in Slots : ReturnCached(t, s)
    \/ \E t \in Threads, s \in Slots : StartPopulate(t, s)
    \/ \E t \in Threads, d \in Data : PopulatorOk(t, d)
    \/ \E t \in Threads : PopulatorErr(t)

\* A populator invocation that has started returns, and a request blocked in
\* self.0.lock() gets the mutex if it stays unlocked. Fair lock acquisition
\* grants more (the mutex to every waiter it is unlocked for again and again);
\* with requests that each make one call this much is enough.
Fairness ==
    /\ \A t \in Threads :
          WF_vars((\E d \in Data : PopulatorOk(t, d)) \/ PopulatorErr(t))
    /\ \A t \in Threads :
          WF_vars(/\ pc[t] = "lock"
                  /\ \E s \in Slots : ReturnCached(t, s) \/ StartPopulate(t, s))

LiveSpec == Init /\ [][LiveNext]_vars /\ Fairness

\* The strings the model hands to each parser on its own: every literal some
\* parser accepts, and strings none accepts (other letter case, padding, an
\* unknown word).
Strings ==
    {"asm", "llvm-ir", "mir", "wasm", "att", "intel", "demangle", "mangle",
     "filter", "raw", "stable", "beta", "nightly", "debug", "release", "",
     "2015", "2018", "bin", "lib", "dylib", "rlib", "staticlib", "cdylib",
     "proc-macro",
     "Asm", "ASM", "LLVM-IR", "Mir", "Att", "Intel", "Demangle", "MANGLE",
     "Filter", "RAW", "Stable", "BETA", "NIGHTLY", "Debug", "Release", "Bin",
     "Lib", "Proc-Macro", " stable", "stable ", "2021", "exe", "0"}

\* The field parsers.
Parsers ==
    {"target", "assembly_flavor", "demangle_assembly", "process_assembly",
     "channel", "mode", "edition", "crate_type"}

ApplyParser(p, s) ==
    CASE p = "target" -> parse_target(s)
      [] p = "assembly_flavor" -> parse_assembly_flavor(s)
      [] p = "demangle_assembly" -> parse_demangle_assembly(s)
      [] p = "process_assembly" -> parse_process_assembly(s)
      [] p = "channel" -> parse_channel(s)
      [] p = "mode" -> parse_mode(s)
      [] p = "edition" -> parse_edition(s)
      [] p = "crate_type" -> parse_crate_type(s)

\* One field parser is applied to one string.
Parse ==
    /\ wire.kind = "none"
    /\ \E p \in Parsers, s \in Strings :
          /\ wire' = [kind |-> "parse", parser |-> p, input |-> s]
          /\ converted' = ApplyParser(p, s)
    /\ UNCHANGED <<now, cache, holder, poisoned, pc, slot, call, okCount,
                   errCount, lastOutcome, httpVars>>

\* The compile handler receives a request and converts it with try_into().
Compile ==
    /\ wire.kind = "none"
    /\ \E ta \in Targets, af \in AssemblyFlavors, da \in DemangleAssemblies,
          pa \in ProcessAssemblies, ch \in Channels, mo \in Modes,
          ed \in Editions, ct \in CrateTypes, fl \in Flags, co \in Codes :
          LET req == CompileRequest(ta, af, da, pa, ch, mo, ed, ct, fl, co)
          IN  /\ wire' = req
              /\ converted' = TryFromCompileRequest(req)
    /\ UNCHANGED <<now, cache, holder, poisoned, pc, slot, call, okCount,
                   errCount, lastOutcome, httpVars>>

\* The execute handler receives a request and converts it with try_into().
Execute ==
    /\ wire.kind = "none"
    /\ \E ch \in Channels, mo \in Modes, ed \in Editions, ct \in CrateTypes,
          fl \in Flags, co \in Codes :
          LET req == ExecuteRequest(ch, mo, ed, ct, fl, co)
          IN  /\ wire' = req
              /\ converted' = TryFromExecuteRequest(req)
    /\ UNCHANGED <<now, cache, holder, poisoned, pc, slot, call, okCount,
                   errCount, lastOutcome, httpVars>>

\* The evaluate handler receives a legacy request and converts it with
\* try_into().
Evaluate ==
    /\ wire.kind = "none"
    /\ \E ve \in Channels, op \in Optimizes, co \in LegacyCodes :
          LET req == EvaluateRequest(ve, op, co)
          IN  /\ wire' = req
              /\ converted' = TryFromEvaluateRequest(req)
    /\ UNCHANGED <<now, cache, holder, poisoned, pc, slot, call, okCount,
                   errCount, lastOutcome, httpVars>>

\* The handler is done with the request.
Respond ==
    /\ wire.kind # "none"
    /\ wire' = NoWire
    /\ converted' = NoResult
    /\ UNCHANGED <<now, cache, holder, poisoned, pc, slot, call, okCount,
                   errCount, lastOutcome, httpVars>>

ConvNext ==
    \/ Compile
    \/ Execute
    \/ Evaluate
    \/ Parse
    \/ Respond

\* The request handlers alone, the cache idle.
ConvSpec == Init /\ [][ConvNext]_vars

(***************************************************************************)
(* The request handlers of the two server bindings (iron_web_server.rs,    *)
(* tower_web_server.rs) and the JSON response builder of the iron binding. *)
(***************************************************************************)
Bindings == {"iron", "tower"}

\* The handlers that validate a wire request before they call the sandbox.
HandlerKinds == {"compile", "execute", "evaluate"}

\* The requests the handlers are run on: for each field a string its parser
\* accepts and one it rejects, the optional fields also absent.
HandlerRequests(kind) ==
    CASE kind = "compile" ->
           {CompileRequest(ta, af, da, pa, ch, mo, ed, ct, <<TRUE, FALSE>>,
                           "fn main(){}") :
               ta \in {"asm", "Asm"},
               af \in {Absent, Some("intel"), Some("Intel")},
               da \in {Absent, Some("")},
               pa \in {Absent, Some("FILTER")},
               ch \in {"stable", "Stable"},
               mo \in {"debug", "Debug"},
               ed \in {"", "2021"},
               ct \in {"bin", "exe"}}
      [] kind = "execute" ->
           {ExecuteRequest(ch, mo, ed, ct, <<TRUE, FALSE>>, "fn main(){}") :
               ch \in {"stable", "Stable"},
               mo \in {"debug", "Debug"},
               ed \in {"", "2021"},
               ct \in {"bin", "exe"}}
      [] kind = "evaluate" ->
           {EvaluateRequest(ve, op, "fn main(){}") :
               ve \in {"stable", "Stable"}, op \in {"0", "2"}}

\* What the body parser makes of the request's body (iron: bodyparser::Struct);
\* under tower_web the handler is entered with the body extracted.
Bodies(b) == IF b = "iron" THEN {"malformed", "missing", "present"}
             ELSE {"present"}

\* What the sandbox's operation answers: Ok with success true, Ok with success
\* false, or Err.
SandboxAnswers == {"success", "failure", "error"}

\* What a CachedSandbox method answers to a meta handler.
CachedAnswers == {"success", "error", "poisoned"}

\* sandbox.compile(&req), sandbox.execute(&req)
SandboxOperation(kind) ==
    CASE kind = "compile" -> "compile"
      [] kind = "execute" -> "execute"
      [] kind = "evaluate" -> "execute"

\* req.try_into()
TryInto(req) ==
    CASE req.kind = "compile" -> TryFromCompileRequest(req)
      [] req.kind = "execute" -> TryFromExecuteRequest(req)
      [] req.kind = "evaluate" -> TryFromEvaluateRequest(req)

\* The sandbox::CompileResponse or sandbox::ExecuteResponse of an answer.
SandboxResponse(op, answer) ==
    LET success == answer = "success"
        stdout == IF success THEN "hello" ELSE ""
        stderr == IF success THEN "Compiling playground"
                  ELSE "error: expected item"
    IN  IF op = "compile"
        THEN [success |-> success, code |-> IF success THEN "ret" ELSE "",
              stdout |-> stdout, stderr |-> stderr]
        ELSE [success |-> success, stdout |-> stdout, stderr |-> stderr]

\* The output streams joined the other way round.
EvaluateResponseFromStdoutFirst(me) ==
    IF me.success
    THEN [result |-> me.stdout, error |-> Absent]
    ELSE LET result == me.stdout \o me.stderr
         IN  [result |-> result, error |-> Some(result)]

\* EvaluateResponse::from(sandbox::ExecuteResponse)
EvaluateResponseFrom(me) ==
    IF me.success
    THEN [result |-> me.stdout, error |-> Absent]
    ELSE LET result == me.stderr \o me.stdout
         IN  [result |-> result, error |-> Some(result)]

\* CompileResponse::from, ExecuteResponse::from, EvaluateResponse::from
ResponseFrom(kind, me) ==
    CASE kind = "compile" ->
           [success |-> me.success, code |-> me.code, stdout |-> me.stdout,
            stderr |-> me.stderr]
      [] kind = "execute" ->
           [success |-> me.success, stdout |-> me.stdout, stderr |-> me.stderr]
      [] kind = "evaluate" -> EvaluateResponseFrom(me)

\* MetaVersionResponse::from of the version a CachedSandbox method returned.
MetaResponse == [version |-> "1.30.0", hash |-> "da5f414c2", date |-> "2018-10-24"]

\* A text is a sequence of pieces, a double quote always a piece of its own.
Quote == "\""

\* serde_json's encoding of a string: in double quotes, each double quote of
\* the string escaped.
RECURSIVE JsonEscaped(_)
JsonEscaped(pieces) ==
    IF pieces = <<>> THEN ""
    ELSE (IF Head(pieces) = Quote THEN "\\\"" ELSE Head(pieces))
         \o JsonEscaped(Tail(pieces))

JsonString(pieces) == Quote \o JsonEscaped(pieces) \o Quote

JsonBool(b) == IF b THEN "true" ELSE "false"

\* serde_json::ser::to_string of a response struct (#[derive(Serialize)]).
ToJson(resp) ==
    CASE "result" \in DOMAIN resp ->
           "{\"result\":" \o JsonString(<<resp.result>>) \o ",\"error\":"
           \o (IF resp.error.some THEN JsonString(<<resp.error.v>>) ELSE "null")
           \o "}"
      [] "code" \in DOMAIN resp ->
           "{\"success\":" \o JsonBool(resp.success)
           \o ",\"code\":" \o JsonString(<<resp.code>>)
           \o ",\"stdout\":" \o JsonString(<<resp.stdout>>)
           \o ",\"stderr\":" \o JsonString(<<resp.stderr>>) \o "}"
      [] "success" \in DOMAIN resp ->
           "{\"success\":" \o JsonBool(resp.success)
           \o ",\"stdout\":" \o JsonString(<<resp.stdout>>)
           \o ",\"stderr\":" \o JsonString(<<resp.stderr>>) \o "}"
      [] "version" \in DOMAIN resp ->
           "{\"version\":" \o JsonString(<<resp.version>>)
           \o ",\"hash\":" \o JsonString(<<resp.hash>>)
           \o ",\"date\":" \o JsonString(<<resp.date>>) \o "}"

\* The errors that carry no wire string.
SandboxError(what) == Err("Sandbox", what)
SerializationError == Err("Serialization", "key must be a string")
DeserializationError == Err("Deserialization", "Can't parse body to the struct")
RequestMissing == Err("RequestMissing", "")
CachePoisoned == Err("CachePoisoned", "")

\* {:?} of a String (one without characters to escape).
Debug(value) == <<Quote, value, Quote>>

\* The display(...) of each kind of Error, as err.to_string() gives it.
Display(err) ==
    CASE err.error = "Sandbox" ->
           <<"Sandbox operation failed: ", err.value>>
      [] err.error = "Serialization" ->
           <<"Unable to serialize response: ", err.value>>
      [] err.error = "Deserialization" ->
           <<"Unable to deserialize request: ", err.value>>
      [] err.error = "InvalidTarget" ->
           <<"The value ">> \o Debug(err.value) \o <<" is not a valid target">>
      [] err.error = "InvalidAssemblyFlavor" ->
           <<"The value ">> \o Debug(err.value)
           \o <<" is not a valid assembly flavor">>
      [] err.error = "InvalidDemangleAssembly" ->
           <<"The value ">> \o Debug(err.value)
           \o <<" is not a valid demangle option">>
      [] err.error = "InvalidProcessAssembly" ->
           <<"The value ">> \o Debug(err.value)
           \o <<" is not a valid assembly processing option">>
      [] err.error = "InvalidChannel" ->
           <<"The value ">> \o Debug(err.value) \o <<" is not a valid channel">>
      [] err.error = "InvalidMode" ->
           <<"The value ">> \o Debug(err.value) \o <<" is not a valid mode">>
      [] err.error = "InvalidEdition" ->
           <<"The value ">> \o Debug(err.value) \o <<" is not a valid edition">>
      [] err.error = "InvalidCrateType" ->
           <<"The value ">> \o Debug(err.value)
           \o <<" is not a valid crate type">>
      [] err.error = "RequestMissing" -> <<"No request was provided">>
      [] err.error = "CachePoisoned" -> <<"The cache has been poisoned">>

\* serde_json::ser::to_string(&ErrorJson { error: err.to_string() })
ErrorJson(err) == "{\"error\":" \o JsonString(Display(err)) \o "}"

FATAL_ERROR_JSON ==
    "{\"error\": \"Multiple cascading errors occurred, abandon all hope\"}"

\* Response::with((status, Header(ContentType::json()), body))
Response(status, body) ==
    [status |-> status, content_type |-> "application/json", body |-> body]

\* serialize_to_response answering validation errors with 400 Bad Request.
serialize_to_response_4xx(response, encodes, error_encodes) ==
    LET body == IF ~response.ok THEN response
                ELSE IF encodes THEN Ok(ToJson(response.val))
                     ELSE SerializationError
        invalid == {"InvalidTarget", "InvalidAssemblyFlavor",
                    "InvalidDemangleAssembly", "InvalidProcessAssembly",
                    "InvalidChannel", "InvalidMode", "InvalidEdition",
                    "InvalidCrateType"}
    IN  IF body.ok
        THEN Response(200, body.val)
        ELSE IF error_encodes
             THEN Response(IF body.val.error \in invalid THEN 400 ELSE 500,
                           ErrorJson(body.val))
             ELSE Response(500, FATAL_ERROR_JSON)

\* serialize_to_response. encodes: serde_json::ser::to_string(&resp) is Ok;
\* error_encodes: serde_json::ser::to_string(&err) is Ok.
serialize_to_response(response, encodes, error_encodes) ==
    LET body == IF ~response.ok THEN response
                ELSE IF encodes THEN Ok(ToJson(response.val))
                     ELSE SerializationError
    IN  IF body.ok
        THEN Response(200, body.val)
        ELSE IF error_encodes
             THEN Response(500, ErrorJson(body.val))
             ELSE Response(500, FATAL_ERROR_JSON)

\* try!/`?` on the conversion's result letting the handler go on whatever it is.
ProceedsRegardless(r) == TRUE

\* try!(req.try_into()), body.try_into()?: the handler goes on with an Ok value
\* and returns an Err at once.
Proceeds(r) == r.ok

\* A handler of the binding b runs on the request req: run_handler,
\* deserialize_from_request and the handler's closure under iron, the handler's
\* method under tower_web. Gives the sandbox operations invoked, in order, the
\* conversion's result and the handler's result.
RunHandler(b, req, env) ==
    LET conv == TryInto(req)
    IN  CASE env.body = "malformed" ->
               [ops |-> <<>>, converted |-> NoResult,
                result |-> DeserializationError]
          [] env.body = "missing" ->
               [ops |-> <<>>, converted |-> NoResult, result |-> RequestMissing]
          [] ~env.sandbox_new ->
               [ops |-> <<"new">>, converted |-> NoResult,
                result |-> SandboxError("unable to create temporary directory")]
          [] ~Proceeds(conv) ->
               [ops |-> <<"new">>, converted |-> conv, result |-> conv]
          [] OTHER ->
               [ops |-> <<"new", SandboxOperation(req.kind)>>,
                converted |-> conv,
                result |->
                   IF env.answer = "error"
                   THEN SandboxError("unable to start the compiler")
                   ELSE Ok(ResponseFrom(req.kind,
                              SandboxResponse(SandboxOperation(req.kind),
                                              env.answer)))]

\* One of the compile, execute and evaluate handlers of a binding serves a
\* request, from its body to the handler's result and, under iron, the response
\* serialize_to_response builds of it.
Handle(b, kind) ==
    /\ binding = "none"
    /\ \E req \in HandlerRequests(kind), body \in Bodies(b),
          new \in BOOLEAN, answer \in SandboxAnswers,
          encodes \in BOOLEAN, error_encodes \in BOOLEAN :
          LET env == [kind |-> kind, body |-> body, sandbox_new |-> new,
                      answer |-> answer, encodes |-> encodes,
                      error_encodes |-> error_encodes]
              run == RunHandler(b, req, env)
          IN  /\ binding' = b
              /\ io' = env
              /\ wire' = IF body = "present" THEN req ELSE NoWire
              /\ converted' = run.converted
              /\ ops' = run.ops
              /\ handlerResult' = run.result
              /\ httpResponse' =
                    IF b = "iron"
                    THEN serialize_to_response(run.result, encodes,
                                               error_encodes)
                    ELSE NoResponse
    /\ UNCHANGED <<now, cache, holder, poisoned, pc, slot, call, okCount,
                   errCount, lastOutcome, asset>>

\* A meta handler of a binding, which has no request to read: Sandbox::new()?,
\* then the CachedSandbox method, whose answer is the cache's.
MetaHandle(b) ==
    /\ binding = "none"
    /\ \E new \in BOOLEAN, answer \in CachedAnswers,
          encodes \in BOOLEAN, error_encodes \in BOOLEAN :
          LET env == [kind |-> "meta", body |-> "none", sandbox_new |-> new,
                      answer |-> answer, encodes |-> encodes,
                      error_encodes |-> error_encodes]
              res == CASE ~new ->
                            SandboxError("unable to create temporary directory")
                       [] answer = "success" -> Ok(MetaResponse)
                       [] answer = "error" ->
                            SandboxError("unable to start the compiler")
                       [] answer = "poisoned" -> CachePoisoned
          IN  /\ binding' = b
              /\ io' = env
              /\ ops' = <<"new">>
              /\ handlerResult' = res
              /\ httpResponse' =
                    IF b = "iron"
                    THEN serialize_to_response(res, encodes, error_encodes)
                    ELSE NoResponse
    /\ UNCHANGED <<now, cache, holder, poisoned, pc, slot, call, okCount,
                   errCount, lastOutcome, wire, converted, asset>>

\* The response is sent and the handler is done.
Finish ==
    /\ binding # "none"
    /\ binding' = "none"
    /\ io' = NoIo
    /\ wire' = NoWire
    /\ converted' = NoResult
    /\ ops' = <<>>
    /\ handlerResult' = NoResult
    /\ httpResponse' = NoResponse
    /\ UNCHANGED <<now, cache, holder, poisoned, pc, slot, call, okCount,
                   errCount, lastOutcome, asset>>

HandlerNext ==
    \/ \E b \in Bindings, kind \in HandlerKinds : Handle(b, kind)
    \/ \E b \in Bindings : MetaHandle(b)
    \/ Finish

\* The request handlers alone, each request served from start to end.
HandlerSpec == Init /\ [][HandlerNext]_vars

(***************************************************************************)
(* The asset resolver: PrecompressedAssets::file (tower_web_server.rs).    *)
(***************************************************************************)
\* A path is a file stem and an extension ("" when the name has none).
Path(stem, ext) == [stem |-> stem, ext |-> ext]

\* The relative paths asked for.
AssetPaths ==
    {Path("index", "html"), Path("app", "js"), Path("style", "css"),
     Path("LICENSE", "")}

\* Dates in whole seconds, as an HTTP date has them.
Dates == 1..MaxDate

\* The fractions of a second a file's modification time may carry.
Fractions == {0, 500}

\* What the file system answers: whether File::open succeeds on the gzip
\* sibling and on the requested path, whether f.metadata() succeeds, and what
\* md.modified() gives (a SystemTime, or an error where the platform has none).
FileSystems ==
    [gz_opens : BOOLEAN, requested_opens : BOOLEAN, metadata : BOOLEAN,
     modified : {Absent} \cup {Some([secs |-> s, millis |-> f]) :
                                  s \in Dates, f \in Fractions}]

\* The If-Modified-Since header, as extracted: Option<HttpDateTime>.
IfModifiedSinces == {Absent} \cup {Some(d) : d \in Dates}

\* requested_path.with_extension(current_ext + ".gz")
GzPath(requested_path) == Path(requested_path.stem, requested_path.ext \o ".gz")

\* mime_guess::guess_mime_type, by the path's extension.
guess_mime_type(path) ==
    CASE path.ext = "html" -> "text/html"
      [] path.ext = "js" -> "application/javascript"
      [] path.ext = "css" -> "text/css"
      [] OTHER -> "application/octet-stream"

\* HttpDateTime::from(SystemTime): an HTTP date has whole seconds.
HttpDateTimeFrom(time) == time.secs

\* if let (Some(client), Ok(server)) = (&if_modified_since, &last_modified)
\* { if client >= server { return 304 } }
NotModified(if_modified_since, last_modified) ==
    /\ if_modified_since.some
    /\ last_modified.some
    /\ if_modified_since.v >= last_modified.v

\* The Content-Encoding header set for every file.
ContentEncodingAlways(gzipped) == Some("gzip")

\* if gzipped { resp.header("Content-Encoding", "gzip") }
ContentEncoding(gzipped) == IF gzipped THEN Some("gzip") ELSE Absent

\* A response of the resolver: its status, the three headers it may set and its
\* body (Either::A(f), the file opened, or Either::B(empty())).
FileResponse(status, content_type, content_encoding, last_modified, body) ==
    [status |-> status, content_type |-> content_type,
     content_encoding |-> content_encoding, last_modified |-> last_modified,
     body |-> body]

Empty == [empty |-> TRUE, file |-> Path("", "")]

FileBody(f) == [empty |-> FALSE, file |-> f]

\* PrecompressedAssets::file. Gives the paths File::open was tried on, in
\* order, and the response.
file(relative_path, if_modified_since, fs) ==
    LET requested_path == relative_path
        gz_path == GzPath(requested_path)
        ct == guess_mime_type(relative_path)
        tried == IF fs.gz_opens THEN <<gz_path>>
                 ELSE <<gz_path, requested_path>>
        opened == fs.gz_opens \/ fs.requested_opens
        f == IF fs.gz_opens THEN gz_path ELSE requested_path
        gzipped == fs.gz_opens
        last_modified == IF fs.modified.some
                         THEN Some(HttpDateTimeFrom(fs.modified.v))
                         ELSE Absent
        not_found == FileResponse(404, Absent, Absent, Absent, Empty)
    IN  [tried |-> tried,
         response |->
            CASE ~opened -> not_found
              [] ~fs.metadata -> not_found
              [] NotModified(if_modified_since, last_modified) ->
                   FileResponse(304, Absent, Absent, Absent, Empty)
              [] OTHER ->
                   FileResponse(200, Some(ct), ContentEncoding(gzipped),
                                last_modified, FileBody(f))]

\* An asset is asked for and resolved.
File ==
    /\ asset.kind = "none"
    /\ \E relative_path \in AssetPaths, if_modified_since \in IfModifiedSinces,
          fs \in FileSystems :
          LET run == file(relative_path, if_modified_since, fs)
          IN  /\ asset' = [kind |-> "file", relative_path |-> relative_path,
                           if_modified_since |-> if_modified_since, fs |-> fs,
                           tried |-> run.tried]
              /\ httpResponse' = run.response
    /\ UNCHANGED <<now, cache, holder, poisoned, pc, slot, call, okCount,
                   errCount, lastOutcome, wire, converted, binding, io, ops,
                   handlerResult>>

\* The response is sent.
Served ==
    /\ asset.kind = "file"
    /\ asset' = NoAsset
    /\ httpResponse' = NoResponse
    /\ UNCHANGED <<now, cache, holder, poisoned, pc, slot, call, okCount,
                   errCount, lastOutcome, wire, converted, binding, io, ops,
                   handlerResult>>

AssetNext ==
    \/ File
    \/ Served

\* The asset resolver alone.
AssetSpec == Init /\ [][AssetNext]_vars

(***************************************************************************)
(* The tower-web binding's static routes behind the Cache wrapper.         *)
(***************************************************************************)
ONE_DAY_IN_SECONDS == 60 * 60 * 24
ONE_YEAR_IN_SECONDS == 60 * 60 * 24 * 365

\* Duration::from_secs(..).as_secs()
ONE_DAY == ONE_DAY_IN_SECONDS
ONE_YEAR == ONE_YEAR_IN_SECONDS

\* Cache::new: format!("public, max-age={}", time.as_secs()) as a HeaderValue.
CacheNew(time) == "public, max-age=" \o ToString(time)

\* The resources that run() wraps in a Cache, each with its header value.
CachedResources ==
    [Index |-> CacheNew(ONE_DAY), Assets |-> CacheNew(ONE_YEAR)]

\* The static routes: GET / and GET /help of Index, GET /assets/*asset of
\* Assets, with the relative path each hands to PrecompressedAssets::file
\* (help calls index, which asks for index.html).
StaticRoutes ==
    {[resource |-> "Index", route |-> "/", relative_path |-> Path("index", "html")],
     [resource |-> "Index", route |-> "/help",
      relative_path |-> Path("index", "html")]}
    \cup {[resource |-> "Assets", route |-> "/assets/*asset", relative_path |-> p] :
             p \in AssetPaths}

\* The header goes on a 200 response only.
CacheableOkOnly(status) == status = 200

\* status == StatusCode::OK || status == StatusCode::NOT_MODIFIED
Cacheable(status) == status = 200 \/ status = 304

\* resp.headers_mut().insert(http::header::CACHE_CONTROL, cache)
InsertCacheControl(resp, header) ==
    [status |-> resp.status, content_type |-> resp.content_type,
     content_encoding |-> resp.content_encoding,
     last_modified |-> resp.last_modified, body |-> resp.body,
     cache_control |-> header]

\* CacheFuture::poll with the inner future ready: the header value is taken
\* out of self.cache and inserted if the status is 200 or 304.
CacheFuturePoll(resp, header) ==
    IF header.some /\ Cacheable(resp.status)
    THEN InsertCacheControl(resp, Some(header.v))
    ELSE InsertCacheControl(resp, Absent)

\* CacheResource::dispatch: a request matches a static route; the inner
\* resource's future is wrapped in a CacheFuture with a clone of the header.
Dispatch ==
    /\ asset.kind = "none"
    /\ \E r \in StaticRoutes, if_modified_since \in IfModifiedSinces,
          fs \in FileSystems :
          asset' = [kind |-> "dispatched", resource |-> r.resource,
                    route |-> r.route, relative_path |-> r.relative_path,
                    if_modified_since |-> if_modified_since, fs |-> fs,
                    cache |-> Some(CachedResources[r.resource])]
    /\ httpResponse' = NoResponse
    /\ UNCHANGED <<now, cache, holder, poisoned, pc, slot, call, okCount,
                   errCount, lastOutcome, wire, converted, binding, io, ops,
                   handlerResult>>

\* CacheFuture::poll: the inner future, PrecompressedAssets::file, is ready.
Poll ==
    /\ asset.kind = "dispatched"
    /\ LET inner == file(asset.relative_path, asset.if_modified_since, asset.fs)
       IN  /\ httpResponse' = CacheFuturePoll(inner.response, asset.cache)
           /\ asset' = [asset EXCEPT !.kind = "ready", !.cache = Absent]
    /\ UNCHANGED <<now, cache, holder, poisoned, pc, slot, call, okCount,
                   errCount, lastOutcome, wire, converted, binding, io, ops,
                   handlerResult>>

\* The response is sent.
Sent ==
    /\ asset.kind = "ready"
    /\ asset' = NoAsset
    /\ httpResponse' = NoResponse
    /\ UNCHANGED <<now, cache, holder, poisoned, pc, slot, call, okCount,
                   errCount, lastOutcome, wire, converted, binding, io, ops,
                   handlerResult>>

StaticNext ==
    \/ Dispatch
    \/ Poll
    \/ Sent

\* The static routes of the tower-web binding alone.
StaticSpec == Init /\ [][StaticNext]_vars

(***************************************************************************)
(* The legacy evaluate response on its own.                                *)
(***************************************************************************)
\* What a program may have written to its standard output.
Stdouts ==
    {"", "hello", "hello world", "1", "42", "error: in stdout", "a", "ab"}

\* What the compiler, Cargo and the program may have written to standard error.
Stderrs ==
    {"", "Compiling playground", "error: expected item", "warning: unused",
     "thread 'main' panicked", "b", "a", "hello"}

\* The sandbox::ExecuteResponse values the sandbox may give.
SandboxExecuteResponses ==
    [success : BOOLEAN, stdout : Stdouts, stderr : Stderrs]

\* sandbox.execute has answered and the evaluate handler maps the answer with
\* EvaluateResponse::from.
MapEvaluate ==
    /\ wire.kind = "none"
    /\ \E me \in SandboxExecuteResponses :
          /\ wire' = [kind |-> "sandbox::ExecuteResponse", success |-> me.success,
                      stdout |-> me.stdout, stderr |-> me.stderr]
          /\ converted' = EvaluateResponseFrom(me)
    /\ UNCHANGED <<now, cache, holder, poisoned, pc, slot, call, okCount,
                   errCount, lastOutcome, httpVars>>

MapNext ==
    \/ MapEvaluate
    \/ Respond

\* The mapping of sandbox responses to legacy evaluate responses alone.
MapSpec == Init /\ [][MapNext]_vars

(***************************************************************************)
(* Properties of the cache.                                                *)
(***************************************************************************)
TTL == SANDBOX_CACHE_TIME_TO_LIVE_IN_SECONDS

\* In this step request t gets past self.0.lock() on slot s.
PassesLock(t, s) ==
    /\ pc[t] \in {"new", "lock"}
    /\ pc'[t] \in {"populating", "done"}
    /\ slot'[t] = s

\* In this step request t's call on slot s returns.
Returns(t, s) ==
    /\ pc[t] # "done"
    /\ pc'[t] = "done"
    /\ slot'[t] = s

\* The requests inside the populator of slot s.
Populating(s) == {t \in Threads : pc[t] \in {"populating", "hung"} /\ slot[t] = s}

\* The populator invocations on slot s so far.
Invocations(s) == okCount[s] + errCount[s] + Cardinality(Populating(s))

\* C1: a call that finds in its slot an entry of age at most the TTL (the
\* boundary included) returns a copy of the stored value without invoking the
\* populator, and leaves the entry (value and creation time) as it was.
C1_FreshEntryIsReturned ==
    [][\A t \in Threads, s \in Slots :
         (PassesLock(t, s) /\ cache[s].some /\ now - cache[s].time <= TTL)
         => /\ pc'[t] = "done"
            /\ call'[t].kind = "Ok"
            /\ call'[t].value = cache[s].value
            /\ ~call'[t].invoked
            /\ Invocations(s)' = Invocations(s)
            /\ cache'[s] = cache[s]]_vars

\* A call has returned an entry whose age was exactly the TTL.
C1_Witness ==
    \E t \in Threads :
        /\ pc[t] = "done"
        /\ call[t].kind = "Ok"
        /\ ~call[t].invoked
        /\ call[t].age = TTL
        /\ call[t].value = cache[slot[t]].value

\* C2: a call that finds its slot empty, or its entry older than the TTL,
\* invokes the populator; when the populator succeeds the slot's entry is
\* replaced by the populator's value stamped with the current time, and the
\* call returns that value.
C2_StaleOrEmptyIsRepopulated ==
    [][\A t \in Threads, s \in Slots :
         /\ ( /\ PassesLock(t, s)
              /\ ~poisoned[s]
              /\ (~cache[s].some \/ now - cache[s].time > TTL) )
            => /\ pc'[t] = "populating"
               /\ call'[t].invoked
               /\ Invocations(s)' = Invocations(s) + 1
         /\ (Returns(t, s) /\ okCount'[s] = okCount[s] + 1)
            => /\ pc[t] = "populating"
               /\ call'[t].kind = "Ok"
               /\ call'[t].value.data \in Data
               /\ cache'[s] = [some |-> TRUE, value |-> call'[t].value,
                               time |-> now]]_vars

\* A call has replaced an entry older than the TTL.
C2_Witness ==
    \E t \in Threads :
        /\ pc[t] = "done"
        /\ call[t].kind = "Ok"
        /\ call[t].invoked
        /\ call[t].age > TTL
        /\ cache[slot[t]] = [some |-> TRUE, value |-> call[t].value, time |-> now]

\* C3: when the populator fails, the call returns a Sandbox error and the slot
\* is left as it was (empty, or with its stale entry); the failure is not
\* cached: the next call on the slot invokes the populator again.
C3_FailureLeavesSlotUntouched ==
    [][\A t \in Threads, s \in Slots :
         /\ ( /\ Returns(t, s)
              /\ errCount'[s] = errCount[s] + 1
              /\ poisoned'[s] = poisoned[s] )
            => /\ call'[t].kind = "Sandbox"
               /\ cache'[s] = cache[s]
               /\ okCount'[s] = okCount[s]
         /\ (call'[t].kind = "Sandbox" /\ call[t].kind # "Sandbox")
            => /\ Returns(t, slot[t])
               /\ call[t].invoked
               /\ errCount'[slot[t]] = errCount[slot[t]] + 1
         /\ (PassesLock(t, s) /\ lastOutcome[s] = "Sandbox")
            => /\ pc'[t] = "populating"
               /\ call'[t].invoked
               /\ Invocations(s)' = Invocations(s) + 1]_vars

\* After a failed repopulation of a stale entry, which is still in the slot,
\* the next call on the slot is inside the populator.
C3_Witness ==
    \E t, u \in Threads :
        /\ pc[t] = "done"
        /\ call[t].kind = "Sandbox"
        /\ pc[u] = "populating"
        /\ slot[u] = slot[t]
        /\ lastOutcome[slot[u]] = "Sandbox"
        /\ cache[slot[u]].some

\* C4: at most one populator invocation is in progress per slot, the request
\* inside it holding the slot's lock from its freshness check on.
C4_OnePopulatorPerSlot ==
    \A s \in Slots :
        /\ Cardinality(Populating(s)) <= 1
        /\ \A t \in Populating(s) : holder[s] = t

\* A request is inside the populator of a slot and another waits for the lock.
C4_Witness ==
    \E t, u \in Threads :
        /\ pc[t] = "populating"
        /\ pc[u] = "lock"
        /\ slot[u] = slot[t]

\* The calls on slot s, made while it was empty, that have returned Ok.
Callers(s) ==
    {t \in Threads : /\ pc[t] = "done"
                     /\ slot[t] = s
                     /\ call[t].emptyAtCall
                     /\ call[t].kind = "Ok"}

\* No populator invocation on slot s has failed, and no call on it has found
\* an entry older than the TTL.
AllWithinTTL(s) ==
    /\ errCount[s] = 0
    /\ \A u \in Threads :
          (pc[u] \in {"populating", "hung", "done"} /\ slot[u] = s)
          => call[u].age <= TTL

\* C5: when callers call the same empty slot concurrently, the populator
\* succeeds and all calls complete within the TTL, the populator is invoked
\* exactly once in total and every caller returns the same value.
C5_NoThunderingHerd ==
    \A s \in Slots :
        (AllWithinTTL(s) /\ Callers(s) # {})
        => /\ Invocations(s) = 1
           /\ \A t, u \in Callers(s) : call[t].value = call[u].value

\* Two callers of the same empty slot have returned, one having populated, the
\* other having waited for it.
C5_Witness ==
    \E s \in Slots : \E t, u \in Callers(s) :
        /\ AllWithinTTL(s)
        /\ call[t].invoked
        /\ ~call[u].invoked

\* The sandbox operation each slot caches: crates(), and version(channel) of
\* the slot's own channel.
OwnQuery(s) ==
    CASE s = "crates" -> [op |-> "crates", channel |-> "none"]
      [] s = "version_stable" -> [op |-> "version", channel |-> "Stable"]
      [] s = "version_beta" -> [op |-> "version", channel |-> "Beta"]
      [] s = "version_nightly" -> [op |-> "version", channel |-> "Nightly"]

\* In this step request t moves, in a call on slot s.
StepOf(t, s) ==
    /\ pc'[t] # pc[t]
    /\ slot'[t] = s

\* C6: the four slots are independent: a step of a call on one slot neither
\* changes nor waits on another slot (a request blocks only while its own
\* slot's lock is held, and can proceed as soon as that lock is free), and the
\* value a slot stores is the answer to its own operation and channel.
C6_SlotsAreIndependent ==
    [][\A t \in Threads, s \in Slots :
         /\ StepOf(t, s)
            => \A r \in Slots \ {s} :
                  /\ cache'[r] = cache[r]
                  /\ holder'[r] = holder[r]
                  /\ poisoned'[r] = poisoned[r]
                  /\ okCount'[r] = okCount[r]
                  /\ errCount'[r] = errCount[r]
                  /\ lastOutcome'[r] = lastOutcome[r]
         /\ (StepOf(t, s) /\ pc'[t] = "lock") => holder[s] # NoThread
         /\ (pc[t] = "lock" /\ slot[t] = s /\ holder[s] = NoThread)
            => ENABLED (\/ LockPoisoned(t, s)
                        \/ ReturnCached(t, s)
                        \/ StartPopulate(t, s))
         /\ cache'[s].some => cache'[s].value.query = OwnQuery(s)]_vars

\* A call on one slot, made while a populator invocation on another slot was
\* stuck, has populated its slot and returned.
C6_Witness ==
    \E t, u \in Threads :
        /\ pc[u] = "done"
        /\ call[u].kind = "Ok"
        /\ call[u].invoked
        /\ t \in call[u].hungAtCall
        /\ pc[t] = "hung"
        /\ slot[t] # slot[u]

\* C7: once a populator has panicked while holding a slot's lock, the slot
\* stays poisoned for ever; every later call on it fails with CachePoisoned,
\* without invoking the populator and without resetting the slot; only a panic
\* inside a slot's own populator poisons it, and only calls on a poisoned slot
\* fail with CachePoisoned.
C7_PoisonedSlotFailsFast ==
    [][\A t \in Threads, s \in Slots :
         /\ poisoned[s] => poisoned'[s]
         /\ (poisoned'[s] /\ ~poisoned[s])
            => \E u \in Populating(s) : call'[u].kind = "Panic"
         /\ (call'[t].kind = "Panic" /\ call[t].kind # "Panic")
            => (pc[t] = "populating" /\ poisoned'[slot[t]])
         /\ ( /\ pc[t] \in {"new", "lock"}
              /\ pc'[t] \notin {"new", "lock"}
              /\ slot'[t] = s
              /\ poisoned[s] )
            => /\ pc'[t] = "done"
               /\ call'[t].kind = "CachePoisoned"
               /\ ~call'[t].invoked
               /\ Invocations(s)' = Invocations(s)
               /\ cache'[s] = cache[s]
         /\ (Returns(t, s) /\ call'[t].kind = "CachePoisoned") => poisoned[s]]_vars

\* A call on a poisoned slot has failed with CachePoisoned, and a call made on
\* another slot after the poisoning has returned Ok.
C7_Witness ==
    \E t, u \in Threads :
        /\ pc[t] = "done"
        /\ call[t].kind = "CachePoisoned"
        /\ pc[u] = "done"
        /\ call[u].kind = "Ok"
        /\ slot[u] # slot[t]
        /\ slot[t] \in call[u].poisonedAtCall

\* C8: a populator invocation that never returns keeps its slot's lock for
\* ever, and no other call on that slot completes or gets past the lock,
\* whether or not the slot holds an entry.
C8_StuckPopulatorStallsSlot ==
    [][\A t \in Threads :
         pc[t] = "hung"
         => /\ pc'[t] = "hung"
            /\ slot'[t] = slot[t]
            /\ holder'[slot[t]] = t
            /\ \A u \in Threads \ {t} :
                  slot'[u] = slot[t] => (pc'[u] = pc[u] \/ pc'[u] = "lock")]_vars

\* A populator invocation on a slot that holds an entry is stuck, and a call
\* that arrived afterwards waits for the slot's lock.
C8_Witness ==
    \E t, u \in Threads :
        /\ pc[t] = "hung"
        /\ cache[slot[t]].some
        /\ pc[u] = "lock"
        /\ slot[u] = slot[t]
        /\ t \in call[u].hungAtCall

(***************************************************************************)
(* Properties of the conversion of compile requests.                       *)
(***************************************************************************)
\* The fields of the wire request other than the target's are all valid.
OtherFieldsValid ==
    /\ wire.channel \in {"stable", "beta", "nightly"}
    /\ wire.mode \in {"debug", "release"}
    /\ wire.edition \in {"", "2015", "2018"}
    /\ wire.crate_type \in {"bin", "lib", "dylib", "rlib", "staticlib",
                            "cdylib", "proc-macro"}

\* An assembly field of the wire request is absent, or present and valid.
AssemblyFieldsValidIfPresent ==
    /\ wire.assembly_flavor.some => wire.assembly_flavor.v \in {"att", "intel"}
    /\ wire.demangle_assembly.some => wire.demangle_assembly.v \in {"demangle", "mangle"}
    /\ wire.process_assembly.some => wire.process_assembly.v \in {"filter", "raw"}

AllAssemblyFieldsPresent ==
    /\ wire.assembly_flavor.some
    /\ wire.demangle_assembly.some
    /\ wire.process_assembly.some

\* C9: a compile request with target "asm" whose three assembly fields are all
\* present and valid, its other fields valid, converts to the target
\* Assembly(flavor, demangle, process) of exactly the three parsed values.
C9_AssemblyMerge ==
    ( /\ wire.kind = "compile"
      /\ wire.target = "asm"
      /\ AllAssemblyFieldsPresent
      /\ AssemblyFieldsValidIfPresent
      /\ OtherFieldsValid )
    => /\ converted.ok
       /\ converted.val.target =
             [tag |-> "Assembly",
              flavor |-> IF wire.assembly_flavor.v = "att" THEN "Att" ELSE "Intel",
              demangle |-> IF wire.demangle_assembly.v = "demangle"
                           THEN "Demangle" ELSE "Mangle",
              process |-> IF wire.process_assembly.v = "filter"
                          THEN "Filter" ELSE "Raw"]

\* target "asm", assemblyFlavor "intel", demangleAssembly "demangle",
\* processAssembly "raw" has been converted to Assembly(Intel, Demangle, Raw).
C9_Witness ==
    /\ wire.kind = "compile"
    /\ wire.target = "asm"
    /\ wire.assembly_flavor = Some("intel")
    /\ wire.demangle_assembly = Some("demangle")
    /\ wire.process_assembly = Some("raw")
    /\ converted.ok
    /\ converted.val.target =
          [tag |-> "Assembly", flavor |-> "Intel", demangle |-> "Demangle",
           process |-> "Raw"]

\* C10: a compile request with target "asm" in which at least one of the three
\* assembly fields is absent, the present ones and the other fields valid,
\* converts to the target Assembly(Att, Demangle, Filter): the present
\* assembly fields are discarded.
C10_PartialOverrideDiscarded ==
    ( /\ wire.kind = "compile"
      /\ wire.target = "asm"
      /\ ~AllAssemblyFieldsPresent
      /\ AssemblyFieldsValidIfPresent
      /\ OtherFieldsValid )
    => /\ converted.ok
       /\ converted.val.target =
             [tag |-> "Assembly", flavor |-> "Att", demangle |-> "Demangle",
              process |-> "Filter"]

\* A request with assemblyFlavor omitted, demangleAssembly "mangle" and
\* processAssembly "raw" has been converted to Assembly(Att, Demangle, Filter).
C10_Witness ==
    /\ wire.kind = "compile"
    /\ wire.target = "asm"
    /\ ~wire.assembly_flavor.some
    /\ wire.demangle_assembly = Some("mangle")
    /\ wire.process_assembly = Some("raw")
    /\ converted.ok
    /\ converted.val.target =
          [tag |-> "Assembly", flavor |-> "Att", demangle |-> "Demangle",
           process |-> "Filter"]

\* The target parse_target makes of each accepted target string.
BaseTarget(s) ==
    CASE s = "asm" -> [tag |-> "Assembly", flavor |-> "Att",
                       demangle |-> "Demangle", process |-> "Filter"]
      [] s = "llvm-ir" -> [tag |-> "LlvmIr", flavor |-> "none",
                           demangle |-> "none", process |-> "none"]
      [] s = "mir" -> [tag |-> "Mir", flavor |-> "none", demangle |-> "none",
                       process |-> "none"]
      [] s = "wasm" -> [tag |-> "Wasm", flavor |-> "none", demangle |-> "none",
                        process |-> "none"]

\* A compile request in hand whose target string is valid, in a case other than
\* 'the target is Assembly and the three assembly fields are all present and all
\* parse'.
NoOverrideCase ==
    /\ wire.kind = "compile"
    /\ wire.target \in {"asm", "llvm-ir", "mir", "wasm"}
    /\ ~ ( /\ wire.target = "asm"
           /\ AllAssemblyFieldsPresent
           /\ AssemblyFieldsValidIfPresent )

\* The request in hand without its three assembly fields.
WithoutAssemblyFields ==
    [wire EXCEPT !.assembly_flavor = Absent, !.demangle_assembly = Absent,
                 !.process_assembly = Absent]

\* The error of the first assembly field, in the order flavor, demangle,
\* process, that is present and not an accepted literal.
FirstAssemblyError ==
    IF wire.assembly_flavor.some /\ wire.assembly_flavor.v \notin {"att", "intel"}
    THEN [error |-> "InvalidAssemblyFlavor", value |-> wire.assembly_flavor.v]
    ELSE IF /\ wire.demangle_assembly.some
            /\ wire.demangle_assembly.v \notin {"demangle", "mangle"}
         THEN [error |-> "InvalidDemangleAssembly",
               value |-> wire.demangle_assembly.v]
         ELSE [error |-> "InvalidProcessAssembly",
               value |-> wire.process_assembly.v]

\* C11, as claimed: with a valid target string, in every case other than 'the
\* target is Assembly and the three assembly fields are all present and all
\* parse' (an assembly field missing, or the target not Assembly), the values of the three assembly fields have no effect on the
\* outcome of the conversion: it is the outcome of the same request without
\* them, the target being the one parse_target produced.
C11_AssemblyFieldsHaveNoEffect ==
    ( /\ NoOverrideCase
      /\ wire.target # "asm" \/ ~AllAssemblyFieldsPresent )
    => /\ converted = TryFromCompileRequest(WithoutAssemblyFields)
       /\ OtherFieldsValid
          => /\ converted.ok
             /\ converted.val.target = BaseTarget(wire.target)

\* C11, amended: in those cases a successful conversion keeps the target
\* parse_target produced, and while every assembly field that is present parses
\* the three fields have no effect on the outcome; but an assembly field that is
\* present and does not parse fails the conversion with that field's error (the
\* first in the order flavor, demangle, process), whatever the target is.
C11_BaseTargetKeptUnlessFieldInvalid ==
    NoOverrideCase
    => /\ converted.ok => converted.val.target = BaseTarget(wire.target)
       /\ AssemblyFieldsValidIfPresent
          => /\ converted = TryFromCompileRequest(WithoutAssemblyFields)
             /\ OtherFieldsValid => converted.ok
       /\ ~AssemblyFieldsValidIfPresent
          => /\ ~converted.ok
             /\ converted.val = FirstAssemblyError

\* A request with target "mir" and the three assembly fields present and valid
\* has been converted, to the target Mir.
C11_Witness ==
    /\ wire.kind = "compile"
    /\ wire.target = "mir"
    /\ wire.assembly_flavor = Some("intel")
    /\ wire.demangle_assembly = Some("mangle")
    /\ wire.process_assembly = Some("raw")
    /\ converted.ok
    /\ converted.val.target.tag = "Mir"

(***************************************************************************)
(* Properties of the field parsers.                                        *)
(***************************************************************************)
\* The literals each parser is to accept, with the value each stands for.
Accepted ==
    [target |->
        ("asm" :> BaseTarget("asm")) @@ ("llvm-ir" :> BaseTarget("llvm-ir"))
        @@ ("mir" :> BaseTarget("mir")) @@ ("wasm" :> BaseTarget("wasm")),
     assembly_flavor |-> ("att" :> "Att") @@ ("intel" :> "Intel"),
     demangle_assembly |-> ("demangle" :> "Demangle") @@ ("mangle" :> "Mangle"),
     process_assembly |-> ("filter" :> "Filter") @@ ("raw" :> "Raw"),
     channel |->
        ("stable" :> "Stable") @@ ("beta" :> "Beta") @@ ("nightly" :> "Nightly"),
     mode |-> ("debug" :> "Debug") @@ ("release" :> "Release"),
     crate_type |->
        ("bin" :> "Binary") @@ ("lib" :> "Library(Lib)")
        @@ ("dylib" :> "Library(Dylib)") @@ ("rlib" :> "Library(Rlib)")
        @@ ("staticlib" :> "Library(Staticlib)")
        @@ ("cdylib" :> "Library(Cdylib)")
        @@ ("proc-macro" :> "Library(ProcMacro)")]

\* The error kind of each field.
ErrorKind ==
    [target |-> "InvalidTarget",
     assembly_flavor |-> "InvalidAssemblyFlavor",
     demangle_assembly |-> "InvalidDemangleAssembly",
     process_assembly |-> "InvalidProcessAssembly",
     channel |-> "InvalidChannel",
     mode |-> "InvalidMode",
     edition |-> "InvalidEdition",
     crate_type |-> "InvalidCrateType"]

\* C12: each of the parsers of target, assembly flavor, demangle, process,
\* channel, mode and crate type succeeds exactly on its lowercase literals,
\* giving the value the literal stands for, and on every other string (another
\* letter case included) fails with its own field's error kind carrying the
\* string unchanged.
C12_ParsersAcceptExactlyTheirLiterals ==
    (wire.kind = "parse" /\ wire.parser \in DOMAIN Accepted)
    => IF wire.input \in DOMAIN Accepted[wire.parser]
       THEN converted = [ok |-> TRUE, val |-> Accepted[wire.parser][wire.input]]
       ELSE converted = [ok |-> FALSE,
                         val |-> [error |-> ErrorKind[wire.parser],
                                  value |-> wire.input]]

\* parse_channel has been applied to "Stable" and failed with
\* InvalidChannel("Stable").
C12_Witness ==
    /\ wire.kind = "parse"
    /\ wire.parser = "channel"
    /\ wire.input = "Stable"
    /\ ~converted.ok
    /\ converted.val = [error |-> "InvalidChannel", value |-> "Stable"]

(***************************************************************************)
(* Properties of the conversion of compile, execute and evaluate requests. *)
(***************************************************************************)
\* The fields of the request in hand that are parsed before its edition are
\* all valid.
FieldsBeforeEditionValid ==
    /\ wire.channel \in {"stable", "beta", "nightly"}
    /\ wire.mode \in {"debug", "release"}
    /\ wire.kind = "compile"
       => /\ wire.target \in {"asm", "llvm-ir", "mir", "wasm"}
          /\ AssemblyFieldsValidIfPresent

\* C13: a compile or execute request that converts has edition None if and only
\* if its wire edition is the empty string, "2015" gives Rust2015 and "2018"
\* gives Rust2018; any other edition string makes the conversion fail, never
\* default, and the failure is InvalidEdition of that string (whenever no field
\* parsed before the edition has failed first).
C13_EditionNoneIffEmpty ==
    wire.kind \in {"compile", "execute"}
    => /\ converted.ok
          => /\ converted.val.edition = [some |-> FALSE, v |-> "none"]
                <=> wire.edition = ""
             /\ wire.edition = "2015"
                => converted.val.edition = [some |-> TRUE, v |-> "Rust2015"]
             /\ wire.edition = "2018"
                => converted.val.edition = [some |-> TRUE, v |-> "Rust2018"]
       /\ wire.edition \notin {"", "2015", "2018"}
          => /\ ~converted.ok
             /\ FieldsBeforeEditionValid
                => converted.val = [error |-> "InvalidEdition",
                                    value |-> wire.edition]

\* An execute request with edition "2021", its channel and mode valid, has
\* failed with InvalidEdition("2021").
C13_Witness ==
    /\ wire.kind = "execute"
    /\ wire.edition = "2021"
    /\ FieldsBeforeEditionValid
    /\ ~converted.ok
    /\ converted.val = [error |-> "InvalidEdition", value |-> "2021"]

\* C14: a legacy evaluate request {version, optimize, code} whose version is a
\* channel converts to an execute request with that channel, mode Debug if and
\* only if optimize is exactly "0" and Release otherwise, edition None, crate
\* type Binary, tests and backtrace false and the code unchanged; any other
\* version fails with InvalidChannel of that string, and nothing else fails.
C14_LegacyEvaluate ==
    wire.kind = "evaluate"
    => IF wire.version \in {"stable", "beta", "nightly"}
       THEN /\ converted.ok
            /\ converted.val =
                  [channel |-> CASE wire.version = "stable" -> "Stable"
                                 [] wire.version = "beta" -> "Beta"
                                 [] wire.version = "nightly" -> "Nightly",
                   mode |-> IF wire.optimize = "0" THEN "Debug" ELSE "Release",
                   edition |-> [some |-> FALSE, v |-> "none"],
                   crate_type |-> "Binary",
                   tests |-> FALSE,
                   backtrace |-> FALSE,
                   code |-> wire.code]
       ELSE /\ ~converted.ok
            /\ converted.val = [error |-> "InvalidChannel",
                                value |-> wire.version]

\* A legacy request with optimize "" has been converted, to mode Release.
C14_Witness ==
    /\ wire.kind = "evaluate"
    /\ wire.optimize = ""
    /\ wire.version = "beta"
    /\ converted.ok
    /\ converted.val.mode = "Release"
    /\ converted.val.channel = "Beta"

\* The fields of the request in hand in the order of the claim, each with its
\* error kind, its wire string and whether that string is acceptable.
FieldChecks ==
    LET common ==
          << <<"InvalidChannel", wire.channel,
               wire.channel \in {"stable", "beta", "nightly"}>>,
             <<"InvalidMode", wire.mode, wire.mode \in {"debug", "release"}>>,
             <<"InvalidEdition", wire.edition,
               wire.edition \in {"", "2015", "2018"}>>,
             <<"InvalidCrateType", wire.crate_type,
               wire.crate_type \in {"bin", "lib", "dylib", "rlib", "staticlib",
                                    "cdylib", "proc-macro"}>> >>
    IN  IF wire.kind = "compile"
        THEN << <<"InvalidTarget", wire.target,
                  wire.target \in {"asm", "llvm-ir", "mir", "wasm"}>>,
                <<"InvalidAssemblyFlavor", wire.assembly_flavor.v,
                  wire.assembly_flavor.some
                  => wire.assembly_flavor.v \in {"att", "intel"}>>,
                <<"InvalidDemangleAssembly", wire.demangle_assembly.v,
                  wire.demangle_assembly.some
                  => wire.demangle_assembly.v \in {"demangle", "mangle"}>>,
                <<"InvalidProcessAssembly", wire.process_assembly.v,
                  wire.process_assembly.some
                  => wire.process_assembly.v \in {"filter", "raw"}>> >>
             \o common
        ELSE common

\* The positions of the invalid fields among checks.
InvalidFields(checks) == {i \in DOMAIN checks : ~checks[i][3]}

\* C20: a compile or execute request with one or more invalid fields fails with
\* one error, that of its first invalid field in the order target,
\* assemblyFlavor, demangleAssembly, processAssembly, channel, mode, edition,
\* crateType (for execute: channel, mode, edition, crateType), carrying that
\* field's string; with no invalid field it converts.
C20_FirstInvalidFieldIsReported ==
    wire.kind \in {"compile", "execute"}
    => LET checks == FieldChecks
           invalid == InvalidFields(checks)
       IN  IF invalid = {}
           THEN converted.ok
           ELSE LET first == CHOOSE i \in invalid : \A j \in invalid : i <= j
                IN  /\ ~converted.ok
                    /\ converted.val = [error |-> checks[first][1],
                                        value |-> checks[first][2]]

\* A compile request whose assemblyFlavor, channel and crateType are all
\* invalid has failed with the assemblyFlavor's error.
C20_Witness ==
    /\ wire.kind = "compile"
    /\ InvalidFields(FieldChecks) = {2, 5, 8}
    /\ ~converted.ok
    /\ converted.val = [error |-> "InvalidAssemblyFlavor", value |-> "Intel"]

(***************************************************************************)
(* No stale value leaves the cache.                                        *)
(***************************************************************************)
\* C19: a call of clone_or_populate that returns a value returns either the
\* value of an entry of age at most the TTL, read in that step, or the value its
\* own populator invocation produced and stored in that step; a call whose
\* populator invocation fails returns the error and no value, also when the
\* slot holds a stale entry.
C19_NoStaleValueReturned ==
    [][\A t \in Threads, s \in Slots :
         Returns(t, s)
         => /\ call'[t].kind = "Ok"
               => \/ /\ pc[t] \in {"new", "lock"}
                     /\ cache[s].some
                     /\ now - cache[s].time <= TTL
                     /\ call'[t].value = cache[s].value
                  \/ /\ pc[t] = "populating"
                     /\ call'[t].invoked
                     /\ okCount'[s] = okCount[s] + 1
                     /\ cache'[s] = [some |-> TRUE, value |-> call'[t].value,
                                     time |-> now]
            /\ call'[t].kind # "Ok"
               => /\ call'[t].kind \in {"Sandbox", "Panic", "CachePoisoned"}
                  /\ call'[t].value = NoValue]_vars

\* A call found an entry older than the TTL, its populator invocation failed,
\* and it returned the error, the stale entry still in the slot.
C19_Witness ==
    \E t \in Threads :
        /\ pc[t] = "done"
        /\ call[t].kind = "Sandbox"
        /\ call[t].invoked
        /\ call[t].age > TTL
        /\ call[t].value = NoValue
        /\ cache[slot[t]].some
        /\ now - cache[slot[t]].time > TTL

(***************************************************************************)
(* Properties of the request handlers and of the response builder.         *)
(***************************************************************************)
\* The handler's result as the response builder takes it after encoding the
\* response: a response that does not encode is a Serialization error.
ErrorToReport ==
    IF handlerResult.ok
    THEN [error |-> "Serialization", value |-> "key must be a string"]
    ELSE handlerResult.val

\* C15: whatever the handler's result, the JSON response builder answers 200
\* with the encoded response when the handler succeeded and the response
\* encodes, and otherwise 500, never a 4xx, with the body {"error": message} of
\* the error, be it a validation, deserialization, missing-request, sandbox,
\* poisoned-cache or serialization error; when that body does not encode either
\* it answers 500 with the fixed fallback JSON.
C15_ResponseBuilder ==
    binding = "iron"
    => /\ httpResponse.content_type = "application/json"
       /\ httpResponse.status \in {200, 500}
       /\ IF handlerResult.ok /\ io.encodes
          THEN /\ httpResponse.status = 200
               /\ httpResponse.body = ToJson(handlerResult.val)
          ELSE /\ httpResponse.status = 500
               /\ httpResponse.body =
                     IF io.error_encodes
                     THEN "{\"error\":" \o JsonString(Display(ErrorToReport))
                          \o "}"
                     ELSE "{\"error\": \"Multiple cascading errors occurred, abandon all hope\"}"

\* The iron compile handler has answered a request whose target is "Asm" with
\* 500 and the message of InvalidTarget("Asm").
C15_Witness ==
    /\ binding = "iron"
    /\ wire.kind = "compile"
    /\ wire.target = "Asm"
    /\ io.sandbox_new
    /\ io.error_encodes
    /\ handlerResult = [ok |-> FALSE,
                        val |-> [error |-> "InvalidTarget", value |-> "Asm"]]
    /\ httpResponse.status = 500
    /\ httpResponse.body =
          "{\"error\":\"The value \\\"Asm\\\" is not a valid target\"}"

\* The wire request in hand passes validation.
RequestValid ==
    IF wire.kind = "evaluate"
    THEN wire.version \in {"stable", "beta", "nightly"}
    ELSE InvalidFields(FieldChecks) = {}

\* C18: in both bindings, a compile, execute or evaluate request that fails
\* validation has the sandbox's compile or execute operation never invoked, the
\* handler's result being the validation error; the operation is invoked only
\* for a request that has validated as a whole, after Sandbox::new().
C18_ValidationBeforeSandbox ==
    (binding \in {"iron", "tower"} /\ wire.kind \in {"compile", "execute", "evaluate"})
    => LET operation == IF wire.kind = "compile" THEN "compile" ELSE "execute"
           invoked == {ops[i] : i \in DOMAIN ops}
       IN  /\ ~RequestValid
              => /\ invoked \cap {"compile", "execute"} = {}
                 /\ io.sandbox_new
                    => /\ ~handlerResult.ok
                       /\ handlerResult.val.error \in
                             {ErrorKind[f] : f \in DOMAIN ErrorKind}
           /\ invoked \cap {"compile", "execute"} # {}
              => /\ RequestValid
                 /\ converted.ok
                 /\ ops = <<"new", operation>>

\* The tower execute handler has returned InvalidMode("Debug") for a request,
\* having invoked Sandbox::new() and nothing else.
C18_Witness ==
    /\ binding = "tower"
    /\ wire.kind = "execute"
    /\ wire.channel = "stable"
    /\ wire.mode = "Debug"
    /\ ops = <<"new">>
    /\ handlerResult = [ok |-> FALSE,
                        val |-> [error |-> "InvalidMode", value |-> "Debug"]]

(***************************************************************************)
(* Properties of the asset resolver.                                       *)
(***************************************************************************)
\* The gzip sibling of the path asked for.
GzSibling ==
    [stem |-> asset.relative_path.stem, ext |-> asset.relative_path.ext \o ".gz"]

\* The media type of the path asked for.
MediaType ==
    CASE asset.relative_path = [stem |-> "index", ext |-> "html"] -> "text/html"
      [] asset.relative_path = [stem |-> "app", ext |-> "js"] ->
           "application/javascript"
      [] asset.relative_path = [stem |-> "style", ext |-> "css"] -> "text/css"
      [] asset.relative_path = [stem |-> "LICENSE", ext |-> ""] ->
           "application/octet-stream"

NoHeader == [some |-> FALSE, v |-> "none"]

\* C16: the resolver tries to open the gzip sibling first and the path asked for
\* only if that fails; when both opens fail it answers 404 with an empty body
\* and no Content-Type, Content-Encoding or Last-Modified; a 200 response
\* carries Content-Encoding: gzip if and only if the file opened is the gzip
\* sibling, and its Content-Type is that of the path asked for in both cases.
C16_GzipSiblingFirst ==
    asset.kind = "file"
    => /\ asset.tried[1] = GzSibling
       /\ IF asset.fs.gz_opens
          THEN Len(asset.tried) = 1
          ELSE asset.tried = <<GzSibling, asset.relative_path>>
       /\ (~asset.fs.gz_opens /\ ~asset.fs.requested_opens)
          => /\ httpResponse.status = 404
             /\ httpResponse.body.empty
             /\ httpResponse.content_type = NoHeader
             /\ httpResponse.content_encoding = NoHeader
             /\ httpResponse.last_modified = NoHeader
       /\ httpResponse.status = 200
          => /\ ~httpResponse.body.empty
             /\ httpResponse.body.file \in {GzSibling, asset.relative_path}
             /\ httpResponse.body.file = asset.tried[Len(asset.tried)]
             /\ httpResponse.content_encoding = [some |-> TRUE, v |-> "gzip"]
                <=> httpResponse.body.file = GzSibling
             /\ httpResponse.body.file # GzSibling
                => httpResponse.content_encoding = NoHeader
             /\ httpResponse.content_type = [some |-> TRUE, v |-> MediaType]

\* With no gzip sibling to open, app.js has been served with 200, as
\* application/javascript and without Content-Encoding.
C16_Witness ==
    /\ asset.kind = "file"
    /\ asset.relative_path = [stem |-> "app", ext |-> "js"]
    /\ ~asset.fs.gz_opens
    /\ asset.tried = <<[stem |-> "app", ext |-> "js.gz"],
                       [stem |-> "app", ext |-> "js"]>>
    /\ httpResponse.status = 200
    /\ httpResponse.content_encoding = NoHeader
    /\ httpResponse.content_type = [some |-> TRUE, v |-> "application/javascript"]
    /\ httpResponse.body.file = [stem |-> "app", ext |-> "js"]

\* C17: when a file was opened, the resolver answers 304, with an empty body
\* and no Content-Type or Content-Encoding, if and only if the client sent
\* If-Modified-Since, the file's modification time is available and
\* If-Modified-Since >= the modification time (equality included); otherwise it
\* answers 200, with Last-Modified present exactly when the modification time
\* was obtainable.
C17_NotModifiedIffClientIsCurrent ==
    (asset.kind = "file" /\ (asset.fs.gz_opens \/ asset.fs.requested_opens))
    => LET available == asset.fs.metadata /\ asset.fs.modified.some
           current == /\ asset.if_modified_since.some
                      /\ available
                      /\ asset.if_modified_since.v >= asset.fs.modified.v.secs
       IN  IF current
           THEN /\ httpResponse.status = 304
                /\ httpResponse.body.empty
                /\ httpResponse.content_type = NoHeader
                /\ httpResponse.content_encoding = NoHeader
           ELSE /\ httpResponse.status = 200
                /\ httpResponse.last_modified.some <=> available

\* The requests inside clone_or_populate: blocked in self.0.lock(), or inside the
\* populator.
InCall(t) == pc[t] \in {"lock", "populating"}

\* C21: if every populator invocation returns, with success or failure and
\* without panicking, and lock acquisition is fair, then every clone_or_populate
\* call eventually returns; and the slot's lock is released on every return
\* path (hit, successful populate, failed populate): it is held only by a
\* request that is inside the populator of that slot.
C21_EveryCallReturns ==
    /\ \A t \in Threads : InCall(t) ~> (pc[t] = "done")
    /\ [](\A s \in Slots :
            holder[s] # NoThread
            => /\ pc[holder[s]] = "populating"
               /\ slot[holder[s]] = s)
    /\ [][\A t \in Threads :
            (pc[t] # "done" /\ pc'[t] = "done")
            => /\ holder'[slot'[t]] = NoThread
               /\ call'[t].kind \in {"Ok", "Sandbox"}]_vars

\* The three return paths have been taken on one slot, each releasing the lock:
\* a failed populate, a successful one, and a hit by a call that arrived while
\* the slot was empty, so that it waited for the lock during the populate.
C21_Witness ==
    \E t, u, v \in Threads :
        /\ pc[t] = "done" /\ pc[u] = "done" /\ pc[v] = "done"
        /\ slot[t] = slot[u] /\ slot[u] = slot[v]
        /\ call[t].kind = "Sandbox"
        /\ call[u].kind = "Ok" /\ call[u].invoked
        /\ call[v].kind = "Ok" /\ ~call[v].invoked /\ call[v].emptyAtCall
        /\ holder[slot[t]] = NoThread

(***************************************************************************)
(* Properties of the tower-web binding's static routes.                    *)
(***************************************************************************)
\* The response of the file resolver for the request in hand, as C16 and C17
\* describe it: its status.
InnerStatus ==
    IF ~asset.fs.gz_opens /\ ~asset.fs.requested_opens THEN 404
    ELSE IF ~asset.fs.metadata THEN 404
    ELSE IF /\ asset.if_modified_since.some
            /\ asset.fs.modified.some
            /\ asset.if_modified_since.v >= asset.fs.modified.v.secs
         THEN 304
    ELSE 200

\* C22: in the tower-web binding, Cache-Control: public, max-age=<seconds> is
\* added to a static response exactly when its status is 200 or 304, with
\* 86400 seconds for / and /help and 31536000 seconds for /assets/*; a response
\* with any other status is passed through with no Cache-Control.
C22_CacheControlOnOkAndNotModified ==
    asset.kind = "ready"
    => /\ httpResponse.status = InnerStatus
       /\ httpResponse.status \in {200, 304, 404}
       /\ IF httpResponse.status \in {200, 304}
          THEN /\ asset.route \in {"/", "/help"}
                  => httpResponse.cache_control =
                        [some |-> TRUE, v |-> "public, max-age=86400"]
               /\ asset.route = "/assets/*asset"
                  => httpResponse.cache_control =
                        [some |-> TRUE, v |-> "public, max-age=31536000"]
          ELSE httpResponse.cache_control = NoHeader
       /\ asset.route \in {"/", "/help", "/assets/*asset"}

\* /help has been answered 304 Not Modified with a one-day Cache-Control.
C22_Witness ==
    /\ asset.kind = "ready"
    /\ asset.route = "/help"
    /\ httpResponse.status = 304
    /\ httpResponse.cache_control = [some |-> TRUE, v |-> "public, max-age=86400"]

(***************************************************************************)
(* Properties of the legacy evaluate response.                             *)
(***************************************************************************)
\* C23: mapping a sandbox execute response to the legacy evaluate response: when
\* success is true, result is stdout alone and error is absent; when success is
\* false, result is stderr followed by stdout and error carries that same
\* string.
C23_EvaluateResponseMapping ==
    wire.kind = "sandbox::ExecuteResponse"
    => IF wire.success
       THEN /\ converted.result = wire.stdout
            /\ converted.error = NoHeader
       ELSE /\ converted.result = wire.stderr \o wire.stdout
            /\ converted.error = [some |-> TRUE, v |-> wire.stderr \o wire.stdout]
            /\ converted.error.v = converted.result

\* A failed run that wrote to both streams has been mapped: result and error
\* hold the standard error followed by the standard output.
C23_Witness ==
    /\ wire.kind = "sandbox::ExecuteResponse"
    /\ ~wire.success
    /\ wire.stderr = "error: expected item"
    /\ wire.stdout = "hello"
    /\ converted.result = "error: expected itemhello"
    /\ converted.error = [some |-> TRUE, v |-> "error: expected itemhello"]

====
